---- MODULE Spec2Model ----
(***************************************************************************)
(* Offset storage and lag evaluation core (offsets_store.go).              *)
(*                                                                         *)
(* The storage goroutine receives PartitionOffset records and requests and *)
(* starts one goroutine per item.  Each goroutine is a task of the model;  *)
(* a task moves from one blocking point of its function to the next in one *)
(* step.  Slices are sequences (partition p is index p+1), a nil pointer   *)
(* is the empty sequence <<>> and a non-nil pointer to v is <<v>>.  A Go   *)
(* ring is the sequence of its slots in Do() order: slot 1 is the element  *)
(* the stored *ring.Ring points at, the last slot is Prev().               *)
(***************************************************************************)
EXTENDS Integers, Sequences, FiniteSets, TLC

\* ---------------------------------------------------------------- bounds
MaxActive == 2
MaxArrivals == 3
MaxChan == 1
MaxNow == 3
MaxOffset == 2
MaxPartition == 1
MaxPartitionCount == 2

\* --------------------------------------------------------- configuration
Intervals == 3
MinDistance == 1
ExpireGroup == 0

Clusters == {"local"}
AllClusters == Clusters \cup {"other"}
Topics == {"t1"}
BlacklistedGroup == "console-consumer-1"
BlacklistedTopic == "t-internal"
Groups == {"g1"}

groupBlacklistMatch(g) == g = BlacklistedGroup
topicBlacklistMatch(t) == t = BlacklistedTopic

\* ------------------------------------------------------------ data types
StatusNotFound == "NOTFOUND"
StatusOK == "OK"
StatusWarning == "WARN"
StatusError == "ERR"
StatusStop == "STOP"
StatusStall == "STALL"
StatusRewind == "REWIND"

Nil == << >>

PartitionOffset(c, t, p, off, ts, g, n) ==
  [Cluster |-> c, Topic |-> t, Partition |-> p, Offset |-> off,
   Timestamp |-> ts, Group |-> g, TopicPartitionCount |-> n]

BrokerOffset(off, ts) == [Offset |-> off, Timestamp |-> ts]

ConsumerOffset(off, ts, lag, art) ==
  [Offset |-> off, Timestamp |-> ts, Lag |-> lag, artificial |-> art]

PartitionStatus(t, p, st, first, last) ==
  [Topic |-> t, Partition |-> p, Status |-> st, Start |-> first, End |-> last]

ConsumerGroupStatus(c, g) ==
  [Cluster |-> c, Group |-> g, Status |-> StatusNotFound, Complete |-> TRUE,
   Partitions |-> << >>, TotalPartitions |-> 0, Maxlag |-> Nil, TotalLag |-> 0]

Request(type, c, g, showall) ==
  [type |-> type, Cluster |-> c, Group |-> g, Showall |-> showall, Topic |-> ""]

RequestOffsets(c, t, g) ==
  [Request("RequestOffsets", c, g, FALSE) EXCEPT !.Topic = t]

NoOffset == PartitionOffset("", "", 0, 0, 0, "", 0)
NoRequest == Request("", "", "", FALSE)
NoStatus == ConsumerGroupStatus("", "")

\* A goroutine started by the storage goroutine: its function, its position,
\* its argument and its local variables.
Task(kind, pc, o, r) ==
  [kind |-> kind, pc |-> pc, o |-> o, r |-> r,
   brokerOffset |-> 0, partitionCount |-> 0,
   offsetList |-> << >>, status |-> NoStatus, list |-> {}, code |-> "",
   offsets |-> << >>]

NoTask == Task("", "done", NoOffset, NoRequest)

TaskIds == 1..MaxActive

\* ----------------------------------------------------------------- state
VARIABLES
  offsetChannel,   \* storage.offsetChannel: the buffered PartitionOffsets
  requestChannel,  \* storage.requestChannel: the request a sender offers
  tasks,           \* the handler goroutines
  broker,          \* storage.offsets[c].broker
  consumer,        \* storage.offsets[c].consumer
  brokerLock,      \* storage.offsets[c].brokerLock
  consumerLock,    \* storage.offsets[c].consumerLock
  now,             \* time.Now().Unix()
  panicked,        \* the runtime panic that ended the process, or ""
  arrived,         \* history: what the storage goroutine received, in order
  prevStatus,      \* history: the previous ConsumerStatus reply, while
                   \* nothing else has touched the store or the clock
  sectionEnd       \* history: the rings of its group as each evaluation left
                   \* them when it released consumerLock

vars == <<offsetChannel, requestChannel, tasks, broker, consumer, brokerLock,
          consumerLock, now, panicked, arrived, prevStatus, sectionEnd>>

progVars == <<offsetChannel, requestChannel, tasks, broker, consumer,
              brokerLock, consumerLock, now, panicked>>

NowMs == now * 1000

Unlocked == [w |-> 0, r |-> {}]

Init ==
  /\ offsetChannel = << >>
  /\ requestChannel = << >>
  /\ tasks = [i \in TaskIds |-> NoTask]
  /\ broker = [c \in Clusters |-> << >>]
  /\ consumer = [c \in Clusters |-> << >>]
  /\ brokerLock = [c \in Clusters |-> Unlocked]
  /\ consumerLock = [c \in Clusters |-> Unlocked]
  /\ now = 1
  /\ panicked = ""
  /\ arrived = << >>
  /\ prevStatus = Nil
  /\ sectionEnd = [i \in TaskIds |-> Nil]

\* --------------------------------------------------------------- helpers
\* Go maps are functions whose domain is the set of keys present.
MapSet(m, k, v) == [x \in (DOMAIN m) \cup {k} |-> IF x = k THEN v ELSE m[x]]
\* a delete that removes nothing
MapKeep(m, k) == m

MapDelete(m, k) == [x \in (DOMAIN m) \ {k} |-> m[x]]

Nils(n) == [i \in 1..n |-> Nil]

\* append(s, nil) until the slice has n elements
PadTo(s, n) == IF n > Len(s) THEN s \o Nils(n - Len(s)) ELSE s

InRange(s, p) == p >= 0 /\ p < Len(s)

Max(a, b) == IF a >= b THEN a ELSE b

\* sync.RWMutex
CanLock(l) == l.w = 0 /\ l.r = {}
CanRLock(l) == l.w = 0
Lock(l, self) == [l EXCEPT !.w = self]
RLock(l, self) == [l EXCEPT !.r = @ \cup {self}]
Unlock(l, self) == [l EXCEPT !.w = 0]
\* an RUnlock that is missing: the read lock stays held
RUnlockMissing(l, self) == l

RUnlock(l, self) == [l EXCEPT !.r = @ \ {self}]

Running == panicked = ""

Finish(self) == tasks' = [tasks EXCEPT ![self] = NoTask]

\* ------------------------------------------------------------- the rings
RingNew(n) == Nils(n)
RingValue(r) == r[1]
RingPrev(r) == r[Len(r)]
RingNext(r) == Tail(r) \o <<Head(r)>>
RingSetValue(r, v) == [r EXCEPT ![1] = <<v>>]
\* the values Do() visits, in order
RingDo(r) == r


\* ------------------------------------------------------- addBrokerOffset
\* Lines 227-249 on the broker map of one cluster.  The stored slice was made
\* with len = cap, so append copies it: the grown topicList is local and is
\* never stored back, while a BrokerOffset both slices point at is shared.
addBrokerOffsetBody(bmap, o) ==
  LET ok == o.Topic \in DOMAIN bmap
      stored == IF ok THEN bmap[o.Topic] ELSE Nils(o.TopicPartitionCount)
      grown == o.TopicPartitionCount > Len(stored)
      topicList == IF o.TopicPartitionCount >= Len(stored)
                     THEN PadTo(stored, o.TopicPartitionCount) ELSE stored
      p == o.Partition + 1
      entry == <<BrokerOffset(o.Offset, o.Timestamp)>>
  IN  IF ~InRange(topicList, o.Partition)
        THEN [broker |-> MapSet(bmap, o.Topic, stored), panic |-> TRUE]
      ELSE IF topicList[p] = Nil
        THEN [broker |-> MapSet(bmap, o.Topic,
                           IF grown THEN stored ELSE [stored EXCEPT ![p] = entry]),
              panic |-> FALSE]
      ELSE [broker |-> MapSet(bmap, o.Topic, [stored EXCEPT ![p] = entry]),
            panic |-> FALSE]

\* lines 220-226
addBrokerOffset_Lock(self) ==
  LET t == tasks[self] IN
  /\ Running /\ t.kind = "addBrokerOffset" /\ t.pc = "start"
  /\ IF t.o.Cluster \notin Clusters
       THEN Finish(self) /\ UNCHANGED brokerLock
       ELSE /\ CanLock(brokerLock[t.o.Cluster])
            /\ brokerLock' = [brokerLock EXCEPT ![t.o.Cluster] = Lock(@, self)]
            /\ tasks' = [tasks EXCEPT ![self].pc = "locked"]
  /\ UNCHANGED <<offsetChannel, requestChannel, broker, consumer, consumerLock,
                 now, panicked>>

\* lines 227-251
addBrokerOffset_Write(self) ==
  LET t == tasks[self]
      c == t.o.Cluster
      res == addBrokerOffsetBody(broker[c], t.o)
  IN
  /\ Running /\ t.kind = "addBrokerOffset" /\ t.pc = "locked"
  /\ broker' = [broker EXCEPT ![c] = res.broker]
  /\ IF res.panic
       THEN panicked' = "index out of range" /\ UNCHANGED <<tasks, brokerLock>>
       ELSE /\ brokerLock' = [brokerLock EXCEPT ![c] = Unlock(@, self)]
            /\ Finish(self)
            /\ UNCHANGED panicked
  /\ UNCHANGED <<offsetChannel, requestChannel, consumer, consumerLock, now>>

\* ----------------------------------------------------- addConsumerOffset
\* line 262 with neither blacklist configured
NeverBlacklisted(o) == FALSE

\* line 262
Blacklisted(o) == groupBlacklistMatch(o.Group) \/ topicBlacklistMatch(o.Topic)

\* lines 270-298: why the broker table makes the commit be dropped, or "".
BrokerDrop(bmap, o) ==
  IF o.Topic \notin DOMAIN bmap THEN "no topic"
  ELSE IF o.Partition < 0 THEN "negative partition"
  ELSE IF o.Partition >= Len(bmap[o.Topic]) THEN "expanded"
  ELSE IF bmap[o.Topic][o.Partition + 1] = Nil THEN "broker offset"
  ELSE ""

\* line 330
NoAdvance(o, lastOffset) ==
  (o.Timestamp - lastOffset.Timestamp <= 0) /\ (o.Offset <= lastOffset.Offset)

\* the gate of line 339 without its first conjunct: a rate limit that does
\* not look at whether the last entry is artificial
TooFastWhateverLast(o, lastOffset) ==
  /\ o.Timestamp - lastOffset.Timestamp >= 0
  /\ o.Timestamp - lastOffset.Timestamp < MinDistance * 1000

\* line 339
TooFast(o, lastOffset) ==
  /\ ~lastOffset.artificial
  /\ o.Timestamp - lastOffset.Timestamp >= 0
  /\ o.Timestamp - lastOffset.Timestamp < MinDistance * 1000

\* line 349 without the clamp of lines 350-354
PartitionLagUnclamped(brokerOffset, o) == brokerOffset - o.Offset

\* lines 349-354
PartitionLag(brokerOffset, o) ==
  IF brokerOffset - o.Offset < 0 THEN 0 ELSE brokerOffset - o.Offset

\* lines 304-377 on the consumer map of one cluster.  log is the reason the
\* commit was dropped for, or "commit".
addConsumerOffsetBody(cmap, o, brokerOffset, partitionCount) ==
  LET okG == o.Group \in DOMAIN cmap
      okT == okG /\ o.Topic \in DOMAIN cmap[o.Group]
      stored == IF okT THEN cmap[o.Group][o.Topic] ELSE Nils(partitionCount)
      grown == o.Partition >= Len(stored) /\ partitionCount > Len(stored)
      consumerTopicMap == IF o.Partition >= Len(stored)
                            THEN PadTo(stored, partitionCount) ELSE stored
      p == o.Partition + 1
      \* the maps after lines 304-313
      created == MapSet(cmap, o.Group,
                   MapSet(IF okG THEN cmap[o.Group] ELSE << >>, o.Topic, stored))
      WithRing(r) == IF grown THEN created
                     ELSE MapSet(cmap, o.Group,
                            MapSet(created[o.Group], o.Topic,
                                   [stored EXCEPT ![p] = r]))
      entry == ConsumerOffset(o.Offset, o.Timestamp,
                              PartitionLag(brokerOffset, o), FALSE)
  IN  IF ~InRange(consumerTopicMap, o.Partition)
        THEN [consumer |-> created, panic |-> TRUE, log |-> "panic"]
      ELSE IF consumerTopicMap[p] = Nil
        THEN [consumer |-> WithRing(RingNext(RingSetValue(RingNew(Intervals), entry))),
              panic |-> FALSE, log |-> "commit"]
      ELSE IF RingPrev(consumerTopicMap[p]) = Nil
        THEN [consumer |-> created, panic |-> TRUE, log |-> "panic"]
      ELSE IF NoAdvance(o, RingPrev(consumerTopicMap[p])[1])
        THEN [consumer |-> created, panic |-> FALSE, log |-> "noadvance"]
      ELSE IF TooFast(o, RingPrev(consumerTopicMap[p])[1])
        THEN [consumer |-> created, panic |-> FALSE, log |-> "mindistance"]
      ELSE [consumer |-> WithRing(RingNext(RingSetValue(consumerTopicMap[p], entry))),
            panic |-> FALSE, log |-> "commit"]

\* lines 256-269
addConsumerOffset_RLock(self) ==
  LET t == tasks[self] IN
  /\ Running /\ t.kind = "addConsumerOffset" /\ t.pc = "start"
  /\ IF t.o.Cluster \notin Clusters \/ Blacklisted(t.o)
       THEN Finish(self) /\ UNCHANGED brokerLock
       ELSE /\ CanRLock(brokerLock[t.o.Cluster])
            /\ brokerLock' = [brokerLock EXCEPT ![t.o.Cluster] = RLock(@, self)]
            /\ tasks' = [tasks EXCEPT ![self].pc = "rlocked"]
  /\ UNCHANGED <<offsetChannel, requestChannel, broker, consumer, consumerLock,
                 now, panicked>>

\* lines 270-301
addConsumerOffset_Broker(self) ==
  LET t == tasks[self]
      c == t.o.Cluster
  IN
  /\ Running /\ t.kind = "addConsumerOffset" /\ t.pc = "rlocked"
  /\ brokerLock' = [brokerLock EXCEPT ![c] = RUnlock(@, self)]
  /\ IF BrokerDrop(broker[c], t.o) # ""
       THEN Finish(self)
       ELSE tasks' = [tasks EXCEPT
              ![self].pc = "lock",
              ![self].brokerOffset = broker[c][t.o.Topic][t.o.Partition + 1][1].Offset,
              ![self].partitionCount = Len(broker[c][t.o.Topic])]
  /\ UNCHANGED <<offsetChannel, requestChannel, broker, consumer, consumerLock,
                 now, panicked>>

\* line 303
addConsumerOffset_Lock(self) ==
  LET t == tasks[self] IN
  /\ Running /\ t.kind = "addConsumerOffset" /\ t.pc = "lock"
  /\ CanLock(consumerLock[t.o.Cluster])
  /\ consumerLock' = [consumerLock EXCEPT ![t.o.Cluster] = Lock(@, self)]
  /\ tasks' = [tasks EXCEPT ![self].pc = "locked"]
  /\ UNCHANGED <<offsetChannel, requestChannel, broker, consumer, brokerLock,
                 now, panicked>>

\* lines 304-378
addConsumerOffset_Store(self) ==
  LET t == tasks[self]
      c == t.o.Cluster
      res == addConsumerOffsetBody(consumer[c], t.o, t.brokerOffset, t.partitionCount)
  IN
  /\ Running /\ t.kind = "addConsumerOffset" /\ t.pc = "locked"
  /\ consumer' = [consumer EXCEPT ![c] = res.consumer]
  /\ IF res.panic
       THEN panicked' = "index out of range" /\ UNCHANGED <<tasks, consumerLock>>
       ELSE /\ consumerLock' = [consumerLock EXCEPT ![c] = Unlock(@, self)]
            /\ Finish(self)
            /\ UNCHANGED panicked
  /\ UNCHANGED <<offsetChannel, requestChannel, broker, brokerLock, now>>


\* --------------------------------------------------------- evaluateGroup
\* the test of line 444 without its second disjunct: only a partition that
\* has no ring is skipped
RingAbsent(ring) == ring = Nil

\* line 444: the slot the stored ring points at has no value yet
RingNotFull(ring) == ring = Nil \/ RingValue(ring) = Nil

\* line 451 one offset early: an artificial commit for a consumer that is one
\* offset behind the broker
AlmostCaughtUp(lastOffset, brokerOffset) ==
  lastOffset.Offset + 1 >= brokerOffset.Offset

\* line 451
CaughtUp(lastOffset, brokerOffset) == lastOffset.Offset >= brokerOffset.Offset

\* lines 444-476 for one partition: whether it is skipped, whether the read
\* of the broker table or of a ring value fails, the ring afterwards and the
\* copy of its values.
SnapshotPartition(ring, bmap, topic, partition, nowms) ==
  IF RingNotFull(ring)
    THEN [skip |-> TRUE, panic |-> FALSE, ring |-> ring, offsets |-> << >>]
  ELSE IF \/ RingPrev(ring) = Nil
          \/ topic \notin DOMAIN bmap
          \/ ~InRange(bmap[topic], partition)
          \/ bmap[topic][partition + 1] = Nil
    THEN [skip |-> FALSE, panic |-> TRUE, ring |-> ring, offsets |-> << >>]
  ELSE
    LET lastOffset == RingPrev(ring)[1]
        after == IF CaughtUp(lastOffset, bmap[topic][partition + 1][1])
                   THEN RingNext(RingSetValue(ring,
                          ConsumerOffset(lastOffset.Offset, nowms, 0, TRUE)))
                   ELSE ring
    IN  IF \E i \in 1..Len(after) : after[i] = Nil
          THEN [skip |-> FALSE, panic |-> TRUE, ring |-> after, offsets |-> << >>]
          ELSE [skip |-> FALSE, panic |-> FALSE, ring |-> after,
                offsets |-> [i \in 1..Len(after) |-> RingDo(after)[i][1]]]

\* lines 434-478 over the group's map
Snapshot(consumerMap, bmap, nowms) ==
  LET part(t, i) == SnapshotPartition(consumerMap[t][i], bmap, t, i - 1, nowms)
      live == UNION {{<<t, i>> : i \in 1..Len(consumerMap[t])} :
                       t \in DOMAIN consumerMap}
      stamps == UNION {{part(k[1], k[2]).offsets[j].Timestamp :
                          j \in 1..Len(part(k[1], k[2]).offsets)} : k \in live}
  IN  [panic |-> \E k \in live : part(k[1], k[2]).panic,
       consumerMap |-> [t \in DOMAIN consumerMap |->
                          [i \in 1..Len(consumerMap[t]) |-> part(t, i).ring]],
       offsetList |-> [t \in DOMAIN consumerMap |->
                          [i \in 1..Len(consumerMap[t]) |-> part(t, i).offsets]],
       TotalPartitions |-> Cardinality(live),
       Complete |-> \A k \in live : ~part(k[1], k[2]).skip,
       youngestOffset |-> CHOOSE m \in stamps \cup {0} :
                            \A x \in stamps \cup {0} : m >= x]

\* line 481
Expired(youngestOffset, nowsec) ==
  (youngestOffset > 0) /\ (youngestOffset < ((nowsec - ExpireGroup) * 1000))

Repeat(x, n) == [i \in 1..n |-> x]

\* line 576 never true: the lag is taken never to have dropped
LagNeverDropped(offsets) == FALSE

\* line 576
LagDropped(offsets) ==
  \E i \in 1..Len(offsets) :
    (offsets[i].Lag = 0) \/ ((i > 1) /\ (offsets[i].Lag < offsets[i - 1].Lag))

\* line 527 with >= for >: a partition is stopped as soon as the time since
\* its last entry equals the time its ring spans
Rule4OrEqual(offsets, nowms) ==
  (nowms - offsets[Len(offsets)].Timestamp)
     >= (offsets[Len(offsets)].Timestamp - offsets[1].Timestamp)

\* line 527
Rule4(offsets, nowms) ==
  (nowms - offsets[Len(offsets)].Timestamp)
     > (offsets[Len(offsets)].Timestamp - offsets[1].Timestamp)

\* line 552 never true: Rule 2 is not looked at
NeverSameOffset(firstOffset, lastOffset) == FALSE

\* line 552
SameOffset(firstOffset, lastOffset) == lastOffset.Offset = firstOffset.Offset

\* lines 536-543: one append per index at which the offset goes back
Rewinds(offsets) ==
  Cardinality({i \in 2..Len(offsets) : offsets[i].Offset < offsets[i - 1].Offset})

\* lines 497-594 for one partition.  acc is the ConsumerGroupStatus so far,
\* with maxlag beside it.  thispart is one object: every reference appended to
\* Partitions, and Maxlag, shows the status it has at the end.
EvaluatePartition(acc, topic, partition, offsets, nowms, showall) ==
  IF Len(offsets) = 0 THEN acc
  ELSE
    LET firstOffset == offsets[1]
        lastOffset == offsets[Len(offsets)]
    IN
    IF firstOffset.Lag = -1 THEN [acc EXCEPT !.Complete = FALSE]
    ELSE
      LET newMax == lastOffset.Lag > acc.maxlag
          rew == Rewinds(offsets)
          stop == Rule4(offsets, nowms)
          st6 == IF rew > 0 THEN StatusError ELSE acc.Status
          ps6 == IF rew > 0 THEN StatusRewind ELSE StatusOK
          \* <<group status, partition status, appends>>
          out ==
            IF stop THEN <<StatusError, StatusStop, 1>>
            ELSE IF lastOffset.Lag = 0
              THEN <<st6, ps6, rew + (IF showall THEN 1 ELSE 0)>>
            ELSE IF SameOffset(firstOffset, lastOffset)
              THEN IF firstOffset.Lag = 0
                     THEN <<st6, ps6, rew + (IF showall THEN 1 ELSE 0)>>
                     ELSE <<StatusError, StatusStall, rew + 1>>
            ELSE IF (firstOffset.Lag = 0) \/ (lastOffset.Lag <= firstOffset.Lag)
              THEN <<st6, ps6, rew + (IF showall THEN 1 ELSE 0)>>
            ELSE IF ~LagDropped(offsets)
              THEN <<IF st6 = StatusOK THEN StatusWarning ELSE st6,
                     StatusWarning, rew + 1>>
            ELSE <<st6, ps6,
                   rew + (IF (ps6 # StatusOK) \/ showall THEN 1 ELSE 0)>>
          thispart == PartitionStatus(topic, partition, out[2],
                                      firstOffset, lastOffset)
      IN  [acc EXCEPT
             !.Status = out[1],
             !.Partitions = @ \o Repeat(thispart, out[3]),
             !.Maxlag = IF newMax THEN <<thispart>> ELSE @,
             !.maxlag = IF newMax THEN lastOffset.Lag ELSE @,
             !.TotalLag = @ + lastOffset.Lag]

\* lines 494-596: the partitions of offsetList, topics in the given order
RECURSIVE EvaluateTopics(_, _, _, _, _, _)
EvaluateTopics(acc, offsetList, order, i, nowms, showall) ==
  IF order = << >> THEN acc
  ELSE IF i > Len(offsetList[order[1]])
    THEN EvaluateTopics(acc, offsetList, Tail(order), 1, nowms, showall)
  ELSE EvaluateTopics(
         EvaluatePartition(acc, order[1], i - 1, offsetList[order[1]][i],
                           nowms, showall),
         offsetList, order, i + 1, nowms, showall)

\* the orders a range over a map with these keys can take
Orders(keys) ==
  {s \in [1..Cardinality(keys) -> keys] :
     \A i, j \in 1..Cardinality(keys) : s[i] = s[j] => i = j}

\* the reply for a status under construction
Rules(status, offsetList, order, nowms, showall) ==
  LET acc == EvaluateTopics(
               [Status |-> status.Status, Complete |-> status.Complete,
                Partitions |-> << >>, Maxlag |-> Nil, maxlag |-> 0,
                TotalLag |-> 0],
               offsetList, order, 1, nowms, showall)
  IN  [status EXCEPT !.Status = acc.Status, !.Complete = acc.Complete,
                     !.Partitions = acc.Partitions, !.Maxlag = acc.Maxlag,
                     !.TotalLag = acc.TotalLag]

\* lines 408-426
evaluateGroup_Lock(self) ==
  LET t == tasks[self] IN
  /\ Running /\ t.kind = "evaluateGroup" /\ t.pc = "start"
  /\ IF t.r.Cluster \notin Clusters
       THEN /\ tasks' = [tasks EXCEPT
                 ![self].pc = "send",
                 ![self].status = ConsumerGroupStatus(t.r.Cluster, t.r.Group)]
            /\ UNCHANGED consumerLock
       ELSE /\ CanLock(consumerLock[t.r.Cluster])
            /\ consumerLock' = [consumerLock EXCEPT ![t.r.Cluster] = Lock(@, self)]
            /\ tasks' = [tasks EXCEPT ![self].pc = "locked"]
  /\ UNCHANGED <<offsetChannel, requestChannel, broker, consumer, brokerLock,
                 now, panicked>>

\* lines 444-451: the evaluation reaches the read of the broker table for some
\* partition of the group
ReadsBroker(cmap) ==
  \E t \in DOMAIN cmap : \E i \in 1..Len(cmap[t]) : ~RingNotFull(cmap[t][i])

\* Line 451 reads the map clusterMap.broker without brokerLock.  When another
\* goroutine is at line 229, inserting a topic into that map under
\* brokerLock, the two accesses race and the runtime may end the process.
BrokerMapRace(self, c) ==
  \E other \in TaskIds \ {self} :
    /\ tasks[other].kind = "addBrokerOffset" /\ tasks[other].pc = "locked"
    /\ tasks[other].o.Cluster = c
    /\ tasks[other].o.Topic \notin DOMAIN broker[c]

\* lines 427-491.  The broker table is read without brokerLock.
evaluateGroup_Snapshot(self) ==
  LET t == tasks[self]
      c == t.r.Cluster
      g == t.r.Group
      notFound == ConsumerGroupStatus(c, g)
  IN
  /\ Running /\ t.kind = "evaluateGroup" /\ t.pc = "locked"
  /\ IF g \notin DOMAIN consumer[c]
       THEN /\ consumerLock' = [consumerLock EXCEPT ![c] = Unlock(@, self)]
            /\ tasks' = [tasks EXCEPT ![self].pc = "send",
                                      ![self].status = notFound]
            /\ UNCHANGED <<consumer, panicked>>
       ELSE
         \/ /\ ReadsBroker(consumer[c][g]) /\ BrokerMapRace(self, c)
            /\ panicked' = "concurrent map read and map write"
            /\ UNCHANGED <<consumer, consumerLock, tasks>>
         \/ LET snap == Snapshot(consumer[c][g], broker[c], NowMs) IN
            IF snap.panic
              THEN /\ panicked' = "nil pointer dereference"
                   /\ UNCHANGED <<consumer, consumerLock, tasks>>
            ELSE IF Expired(snap.youngestOffset, now)
              THEN /\ consumer' = [consumer EXCEPT ![c] = MapDelete(@, g)]
                   /\ consumerLock' = [consumerLock EXCEPT ![c] = Unlock(@, self)]
                   /\ tasks' = [tasks EXCEPT
                        ![self].pc = "send",
                        ![self].status =
                           [notFound EXCEPT !.TotalPartitions = snap.TotalPartitions,
                                            !.Complete = snap.Complete]]
                   /\ UNCHANGED panicked
            ELSE /\ consumer' = [consumer EXCEPT ![c][g] = snap.consumerMap]
                 /\ consumerLock' = [consumerLock EXCEPT ![c] = Unlock(@, self)]
                 /\ tasks' = [tasks EXCEPT
                      ![self].pc = "rules",
                      ![self].offsetList = snap.offsetList,
                      ![self].status =
                         [notFound EXCEPT !.Status = StatusOK,
                                          !.TotalPartitions = snap.TotalPartitions,
                                          !.Complete = snap.Complete]]
                 /\ UNCHANGED panicked
  /\ UNCHANGED <<offsetChannel, requestChannel, broker, brokerLock, now>>

\* lines 470-476 on the rings as they are stored: the copies an evaluation
\* would take of them
OffsetListOf(cmap) ==
  [t \in DOMAIN cmap |->
     [i \in 1..Len(cmap[t]) |->
        IF RingNotFull(cmap[t][i]) THEN << >>
        ELSE [j \in 1..Len(cmap[t][i]) |-> RingDo(cmap[t][i])[j][1]]]]

\* lines 493-596 reading the stored rings in place of the local copies
evaluateGroup_RulesLive(self) ==
  LET t == tasks[self]
      c == t.r.Cluster
      g == t.r.Group
      live == IF g \in DOMAIN consumer[c]
                THEN OffsetListOf(consumer[c][g]) ELSE << >>
  IN
  /\ Running /\ t.kind = "evaluateGroup" /\ t.pc = "rules"
  /\ \E order \in Orders(DOMAIN live) :
       tasks' = [tasks EXCEPT
         ![self].pc = "send",
         ![self].offsetList = << >>,
         ![self].status = Rules(t.status, live, order, NowMs, t.r.Showall)]
  /\ UNCHANGED <<offsetChannel, requestChannel, broker, consumer, brokerLock,
                 consumerLock, now, panicked>>

\* lines 493-596
evaluateGroup_Rules(self) ==
  LET t == tasks[self] IN
  /\ Running /\ t.kind = "evaluateGroup" /\ t.pc = "rules"
  /\ \E order \in Orders(DOMAIN t.offsetList) :
       tasks' = [tasks EXCEPT
         ![self].pc = "send",
         ![self].offsetList = << >>,
         ![self].status = Rules(t.status, t.offsetList, order, NowMs, t.r.Showall)]
  /\ UNCHANGED <<offsetChannel, requestChannel, broker, consumer, brokerLock,
                 consumerLock, now, panicked>>

\* ------------------------------------------------------------- dropGroup
\* line 386: storage.offsets[cluster] is nil for a cluster that is not
\* configured
dropGroup_Lock(self) ==
  LET t == tasks[self] IN
  /\ Running /\ t.kind = "dropGroup" /\ t.pc = "start"
  /\ IF t.r.Cluster \notin Clusters
       THEN /\ panicked' = "nil pointer dereference"
            /\ UNCHANGED <<tasks, consumerLock>>
       ELSE /\ CanLock(consumerLock[t.r.Cluster])
            /\ consumerLock' = [consumerLock EXCEPT ![t.r.Cluster] = Lock(@, self)]
            /\ tasks' = [tasks EXCEPT ![self].pc = "locked"]
            /\ UNCHANGED panicked
  /\ UNCHANGED <<offsetChannel, requestChannel, broker, consumer, brokerLock, now>>

\* lines 388-394, up to the send on resultChannel
dropGroup_Delete(self) ==
  LET t == tasks[self]
      c == t.r.Cluster
  IN
  /\ Running /\ t.kind = "dropGroup" /\ t.pc = "locked"
  /\ IF t.r.Group \in DOMAIN consumer[c]
       THEN /\ consumer' = [consumer EXCEPT ![c] = MapDelete(@, t.r.Group)]
            /\ tasks' = [tasks EXCEPT ![self].pc = "send", ![self].code = StatusOK]
       ELSE /\ tasks' = [tasks EXCEPT ![self].pc = "send",
                                      ![self].code = StatusNotFound]
            /\ UNCHANGED consumer
  /\ UNCHANGED <<offsetChannel, requestChannel, broker, brokerLock, consumerLock,
                 now, panicked>>

\* --------------------------------------------------- requestConsumerList
\* lines 612-617
requestConsumerList_RLock(self) ==
  LET t == tasks[self] IN
  /\ Running /\ t.kind = "requestConsumerList" /\ t.pc = "start"
  /\ IF t.r.Cluster \notin Clusters
       THEN /\ tasks' = [tasks EXCEPT ![self].pc = "send", ![self].list = {}]
            /\ UNCHANGED consumerLock
       ELSE /\ CanRLock(consumerLock[t.r.Cluster])
            /\ consumerLock' = [consumerLock EXCEPT ![t.r.Cluster] = RLock(@, self)]
            /\ tasks' = [tasks EXCEPT ![self].pc = "rlocked"]
  /\ UNCHANGED <<offsetChannel, requestChannel, broker, consumer, brokerLock,
                 now, panicked>>

\* lines 618-624
requestConsumerList_List(self) ==
  LET t == tasks[self]
      c == t.r.Cluster
  IN
  /\ Running /\ t.kind = "requestConsumerList" /\ t.pc = "rlocked"
  /\ consumerLock' = [consumerLock EXCEPT ![c] = RUnlock(@, self)]
  /\ tasks' = [tasks EXCEPT ![self].pc = "send",
                            ![self].list = DOMAIN consumer[c]]
  /\ UNCHANGED <<offsetChannel, requestChannel, broker, consumer, brokerLock,
                 now, panicked>>

\* ------------------------------------------------------ requestTopicList
\* lines 630-646: the broker topics for an empty group, else the group's
requestTopicList_RLock(self) ==
  LET t == tasks[self]
      c == t.r.Cluster
  IN
  /\ Running /\ t.kind = "requestTopicList" /\ t.pc = "start"
  /\ IF c \notin Clusters
       THEN /\ tasks' = [tasks EXCEPT ![self].pc = "send", ![self].code = "error"]
            /\ UNCHANGED <<brokerLock, consumerLock>>
       ELSE IF t.r.Group = ""
         THEN /\ CanRLock(brokerLock[c])
              /\ brokerLock' = [brokerLock EXCEPT ![c] = RLock(@, self)]
              /\ tasks' = [tasks EXCEPT ![self].pc = "rlocked"]
              /\ UNCHANGED consumerLock
         ELSE /\ CanRLock(consumerLock[c])
              /\ consumerLock' = [consumerLock EXCEPT ![c] = RLock(@, self)]
              /\ tasks' = [tasks EXCEPT ![self].pc = "rlocked"]
              /\ UNCHANGED brokerLock
  /\ UNCHANGED <<offsetChannel, requestChannel, broker, consumer, now, panicked>>

\* lines 638-657
requestTopicList_List(self) ==
  LET t == tasks[self]
      c == t.r.Cluster
      g == t.r.Group
  IN
  /\ Running /\ t.kind = "requestTopicList" /\ t.pc = "rlocked"
  /\ IF g = ""
       THEN /\ tasks' = [tasks EXCEPT ![self].pc = "send",
                                      ![self].list = DOMAIN broker[c]]
            /\ brokerLock' = [brokerLock EXCEPT ![c] = RUnlock(@, self)]
            /\ UNCHANGED consumerLock
       ELSE /\ tasks' = [tasks EXCEPT
                 ![self].pc = "send",
                 ![self].list = IF g \in DOMAIN consumer[c]
                                  THEN DOMAIN consumer[c][g] ELSE {},
                 ![self].code = IF g \in DOMAIN consumer[c] THEN "" ELSE "error"]
            /\ consumerLock' = [consumerLock EXCEPT ![c] = RUnlock(@, self)]
            /\ UNCHANGED brokerLock
  /\ UNCHANGED <<offsetChannel, requestChannel, broker, consumer, now, panicked>>

\* -------------------------------------------------------- requestOffsets
\* lines 673-679: the offset of each partition of a topic, -1 for none
BrokerOffsetList(topicList) ==
  [i \in 1..Len(topicList) |->
     IF topicList[i] = Nil THEN -1 ELSE topicList[i][1].Offset]

\* lines 689-700: the last committed offset of each ring, -1 for none
ConsumerOffsetList(rings) ==
  [i \in 1..Len(rings) |->
     IF rings[i] = Nil THEN -1
     ELSE IF RingPrev(rings[i]) = Nil THEN -1
     ELSE RingPrev(rings[i])[1].Offset]

\* lines 663-685
requestOffsets_RLock(self) ==
  LET t == tasks[self]
      c == t.r.Cluster
  IN
  /\ Running /\ t.kind = "requestOffsets" /\ t.pc = "start"
  /\ IF c \notin Clusters
       THEN /\ tasks' = [tasks EXCEPT ![self].pc = "send",
                                      ![self].code = "topic+group"]
            /\ UNCHANGED <<brokerLock, consumerLock>>
       ELSE IF t.r.Group = ""
         THEN /\ CanRLock(brokerLock[c])
              /\ brokerLock' = [brokerLock EXCEPT ![c] = RLock(@, self)]
              /\ tasks' = [tasks EXCEPT ![self].pc = "rlocked"]
              /\ UNCHANGED consumerLock
         ELSE /\ CanRLock(consumerLock[c])
              /\ consumerLock' = [consumerLock EXCEPT ![c] = RLock(@, self)]
              /\ tasks' = [tasks EXCEPT ![self].pc = "rlocked"]
              /\ UNCHANGED brokerLock
  /\ UNCHANGED <<offsetChannel, requestChannel, broker, consumer, now, panicked>>

\* lines 671-707
requestOffsets_List(self) ==
  LET t == tasks[self]
      c == t.r.Cluster
      g == t.r.Group
      topic == t.r.Topic
  IN
  /\ Running /\ t.kind = "requestOffsets" /\ t.pc = "rlocked"
  /\ IF g = ""
       THEN /\ tasks' = [tasks EXCEPT
                 ![self].pc = "send",
                 ![self].offsets = IF topic \in DOMAIN broker[c]
                                     THEN BrokerOffsetList(broker[c][topic])
                                     ELSE << >>,
                 ![self].code = IF topic \in DOMAIN broker[c] THEN "" ELSE "topic"]
            /\ brokerLock' = [brokerLock EXCEPT ![c] = RUnlock(@, self)]
            /\ UNCHANGED consumerLock
       ELSE /\ tasks' = [tasks EXCEPT
                 ![self].pc = "send",
                 ![self].offsets =
                    IF g \in DOMAIN consumer[c] /\ topic \in DOMAIN consumer[c][g]
                      THEN ConsumerOffsetList(consumer[c][g][topic]) ELSE << >>,
                 ![self].code =
                    IF g \notin DOMAIN consumer[c] THEN "group"
                    ELSE IF topic \notin DOMAIN consumer[c][g] THEN "topic"
                    ELSE ""]
            /\ consumerLock' = [consumerLock EXCEPT ![c] = RUnlock(@, self)]
            /\ UNCHANGED brokerLock
  /\ UNCHANGED <<offsetChannel, requestChannel, broker, consumer, now, panicked>>

\* lines 600-609; no goroutine is ever started for it (lines 191-209)
requestClusterList == Clusters

\* ------------------------------------------------------------ the replies
\* The send on the request's Result channel (lines 391, 393, 421, 430, 488,
\* 597, 613, 626, 631, 659, 664, 709) completes when the requester receives; dropGroup then
\* releases consumerLock (line 396).
ReceiveReply(self) ==
  LET t == tasks[self] IN
  /\ Running /\ t.pc = "send"
  /\ Finish(self)
  /\ IF t.kind = "dropGroup"
       THEN consumerLock' = [consumerLock EXCEPT ![t.r.Cluster] = Unlock(@, self)]
       ELSE UNCHANGED consumerLock
  /\ UNCHANGED <<offsetChannel, requestChannel, broker, consumer, brokerLock,
                 now, panicked>>

\* -------------------------------------------------- the storage goroutine
FreeSlot == \E i \in TaskIds : tasks[i] = NoTask

Spawn(t) ==
  LET i == CHOOSE i \in TaskIds :
             tasks[i] = NoTask /\ \A j \in 1..(i - 1) : tasks[j] # NoTask
  IN  tasks' = [tasks EXCEPT ![i] = t]

\* the function the switch of lines 191-209 starts, or "" for the default case
HandlerOf(r) ==
  CASE r.type = "RequestConsumerList" -> "requestConsumerList"
    [] r.type = "RequestTopicList" -> "requestTopicList"
    [] r.type = "RequestOffsets" -> "requestOffsets"
    [] r.type = "RequestConsumerStatus" -> "evaluateGroup"
    [] r.type = "RequestConsumerDrop" -> "dropGroup"
    [] OTHER -> ""

\* lines 184-189
DispatchOffset ==
  /\ Running /\ offsetChannel # << >> /\ FreeSlot
  /\ LET o == Head(offsetChannel) IN
       Spawn(Task(IF o.Group = "" THEN "addBrokerOffset" ELSE "addConsumerOffset",
                  "start", o, NoRequest))
  /\ offsetChannel' = Tail(offsetChannel)
  /\ UNCHANGED <<requestChannel, broker, consumer, brokerLock, consumerLock,
                 now, panicked>>

\* lines 190-209
DispatchRequest ==
  /\ Running /\ requestChannel # << >>
  /\ LET r == requestChannel[1] IN
       IF HandlerOf(r) = ""
         THEN UNCHANGED tasks
         ELSE FreeSlot /\ Spawn(Task(HandlerOf(r), "start", NoOffset, r))
  /\ requestChannel' = << >>
  /\ UNCHANGED <<offsetChannel, broker, consumer, brokerLock, consumerLock,
                 now, panicked>>

\* ------------------------------------------------------- the environment
\* a reader sends on offsetChannel (cap 10000 at line 151, MaxChan here)
SendOffset(o) ==
  /\ Running /\ Len(offsetChannel) < MaxChan
  /\ offsetChannel' = Append(offsetChannel, o)
  /\ UNCHANGED <<requestChannel, tasks, broker, consumer, brokerLock,
                 consumerLock, now, panicked>>

\* a requester offers a request on the unbuffered requestChannel (line 152)
SendRequest(r) ==
  /\ Running /\ requestChannel = << >>
  /\ requestChannel' = <<r>>
  /\ UNCHANGED <<offsetChannel, tasks, broker, consumer, brokerLock,
                 consumerLock, now, panicked>>

\* the clock advances by a second
Tick ==
  /\ Running /\ now < MaxNow
  /\ now' = now + 1
  /\ UNCHANGED <<offsetChannel, requestChannel, tasks, broker, consumer,
                 brokerLock, consumerLock, panicked>>

\* a step of one handler goroutine
Handler(self) ==
  \/ addBrokerOffset_Lock(self)
  \/ addBrokerOffset_Write(self)
  \/ addConsumerOffset_RLock(self)
  \/ addConsumerOffset_Broker(self)
  \/ addConsumerOffset_Lock(self)
  \/ addConsumerOffset_Store(self)
  \/ evaluateGroup_Lock(self)
  \/ evaluateGroup_Snapshot(self)
  \/ evaluateGroup_Rules(self)
  \/ dropGroup_Lock(self)
  \/ dropGroup_Delete(self)
  \/ requestConsumerList_RLock(self)
  \/ requestConsumerList_List(self)
  \/ requestTopicList_RLock(self)
  \/ requestTopicList_List(self)
  \/ requestOffsets_RLock(self)
  \/ requestOffsets_List(self)


\* ------------------------------------------------------------ the inputs
Arrival(o, r) == [o |-> o, r |-> r]

\* what the broker poller and the offsets-topic reader send
Observations ==
  {PartitionOffset(c, t, p, off, NowMs, "", n) :
     c \in Clusters, t \in Topics, p \in 0..MaxPartition,
     off \in 1..MaxOffset, n \in 1..MaxPartitionCount}
  \cup {PartitionOffset("other", "t1", 0, 1, NowMs, "", 1)}

Commits ==
  {PartitionOffset(c, t, p, off, ts, g, 0) :
     c \in Clusters, t \in Topics, p \in 0..MaxPartition,
     off \in 1..MaxOffset, ts \in {NowMs, NowMs + 500}, g \in Groups}
  \cup {PartitionOffset("other", "t1", 0, 1, NowMs, "g1", 0)}

Requests ==
  {Request("RequestClusterList", "", "", FALSE)}
  \cup {Request(ty, c, g, TRUE) :
          ty \in {"RequestConsumerStatus", "RequestConsumerDrop"},
          c \in AllClusters, g \in Groups}
  \cup {Request("RequestConsumerList", c, "", FALSE) : c \in AllClusters}

\* --------------------------------------------- the concurrent specification
\* Any handler goroutines run in any order; at most MaxArrivals items are
\* sent.
Budget == Len(arrived) + Len(offsetChannel) + Len(requestChannel) < MaxArrivals

Produce ==
  \E o \in Observations \cup Commits :
    Budget /\ SendOffset(o) /\ UNCHANGED <<arrived, prevStatus, sectionEnd>>

Ask ==
  \E r \in Requests :
    Budget /\ SendRequest(r) /\ UNCHANGED <<arrived, prevStatus, sectionEnd>>

ReceiveOffset ==
  /\ DispatchOffset
  /\ arrived' = Append(arrived, Arrival(Head(offsetChannel), NoRequest))
  /\ UNCHANGED <<prevStatus, sectionEnd>>

ReceiveRequest ==
  /\ DispatchRequest
  /\ arrived' = Append(arrived, Arrival(NoOffset, requestChannel[1]))
  /\ UNCHANGED <<prevStatus, sectionEnd>>

Run == \E self \in TaskIds : Handler(self) /\ UNCHANGED <<arrived, prevStatus, sectionEnd>>

Reply == \E self \in TaskIds : ReceiveReply(self) /\ UNCHANGED <<arrived, prevStatus, sectionEnd>>

Next == Produce \/ Ask \/ ReceiveOffset \/ ReceiveRequest \/ Run \/ Reply

Spec == Init /\ [][Next]_vars

\* ------------------------------------------------ the ring specification
\* One group on one partition, the clock running; an item is sent when the
\* handlers of the items before it have returned.
Idle ==
  /\ offsetChannel = << >> /\ requestChannel = << >>
  /\ \A i \in TaskIds : tasks[i] = NoTask

RingObservations ==
  {PartitionOffset("local", "t1", 0, off, 1000, "", 1) : off \in 1..MaxOffset}

RingCommits ==
  {PartitionOffset("local", "t1", 0, off, ts, "g1", 0) :
     off \in 1..MaxOffset, ts \in {NowMs, NowMs + 500}}
  \cup {PartitionOffset("local", "t1", 0, 1, NowMs, BlacklistedGroup, 0),
        PartitionOffset("other", "t1", 0, 1, NowMs, "g1", 0),
        PartitionOffset("local", "t1", -1, 1, NowMs, "g1", 0)}

RingRequests ==
  {Request("RequestConsumerStatus", "local", "g1", b) : b \in BOOLEAN}
  \cup {Request("RequestConsumerDrop", "local", "g1", FALSE),
        Request("RequestConsumerList", "local", "", FALSE)}

RingProduce ==
  \E o \in RingObservations \cup RingCommits :
    Idle /\ SendOffset(o) /\ prevStatus' = Nil /\ UNCHANGED <<arrived, sectionEnd>>

RingAsk ==
  \E r \in RingRequests :
    /\ Idle /\ SendRequest(r)
    /\ prevStatus' = IF r.type = "RequestConsumerDrop" THEN Nil ELSE prevStatus
    /\ UNCHANGED <<arrived, sectionEnd>>

RingReceiveOffset == DispatchOffset /\ UNCHANGED <<arrived, prevStatus, sectionEnd>>

RingReceiveRequest == DispatchRequest /\ UNCHANGED <<arrived, prevStatus, sectionEnd>>

RingRun == \E self \in TaskIds : Handler(self) /\ UNCHANGED <<arrived, prevStatus, sectionEnd>>

RingReply ==
  \E self \in TaskIds :
    /\ ReceiveReply(self)
    /\ prevStatus' = IF tasks[self].kind = "evaluateGroup"
                       THEN <<[r |-> tasks[self].r, status |-> tasks[self].status]>>
                       ELSE prevStatus
    /\ UNCHANGED <<arrived, sectionEnd>>

RingTick == Idle /\ Tick /\ prevStatus' = Nil /\ UNCHANGED <<arrived, sectionEnd>>

NextRing ==
  \/ RingProduce \/ RingAsk \/ RingReceiveOffset \/ RingReceiveRequest
  \/ RingRun \/ RingReply \/ RingTick

SpecRing == Init /\ [][NextRing]_vars

\* ----------------------------------------------- the group specification
\* One group on two partitions of a topic and a blacklisted topic, the clock
\* running; an item is sent when the handlers of the items before it have
\* returned.  Partition 1 is committed to in the first second only, so its
\* ring never fills.
GroupObservations ==
  {PartitionOffset("local", "t1", 0, off, 1000, "", 2) : off \in 1..MaxOffset}
  \cup {PartitionOffset("local", "t1", 1, MaxOffset, 1000, "", 2),
        PartitionOffset("local", BlacklistedTopic, 0, 1, 1000, "", 1)}

GroupCommits ==
  {PartitionOffset("local", "t1", 0, off, NowMs, "g1", 0) : off \in 1..MaxOffset}
  \cup (IF now = 1 THEN {PartitionOffset("local", "t1", 1, 1, NowMs, "g1", 0)}
                    ELSE {})
  \cup {PartitionOffset("local", BlacklistedTopic, 0, 1, NowMs, "g1", 0),
        PartitionOffset("local", "t1", 0, 1, NowMs, BlacklistedGroup, 0)}

GroupRequests ==
  {Request("RequestConsumerStatus", "local", "g1", TRUE),
   Request("RequestConsumerList", "local", "", FALSE),
   Request("RequestTopicList", "local", "", FALSE),
   Request("RequestTopicList", "local", "g1", FALSE),
   Request("RequestTopicList", "other", "g1", FALSE),
   RequestOffsets("local", "t1", ""),
   RequestOffsets("local", "t1", "g1"),
   RequestOffsets("other", "t1", "g1")}

GroupProduce ==
  \E o \in GroupObservations \cup GroupCommits :
    Idle /\ SendOffset(o) /\ UNCHANGED <<arrived, prevStatus, sectionEnd>>

GroupAsk ==
  \E r \in GroupRequests :
    Idle /\ SendRequest(r) /\ UNCHANGED <<arrived, prevStatus, sectionEnd>>

GroupReceiveOffset ==
  /\ DispatchOffset
  /\ arrived' = <<Arrival(Head(offsetChannel), NoRequest)>>
  /\ UNCHANGED <<prevStatus, sectionEnd>>

GroupReceiveRequest ==
  /\ DispatchRequest
  /\ arrived' = <<Arrival(NoOffset, requestChannel[1])>>
  /\ UNCHANGED <<prevStatus, sectionEnd>>

GroupRun == \E self \in TaskIds : Handler(self) /\ UNCHANGED <<arrived, prevStatus, sectionEnd>>

GroupReply ==
  \E self \in TaskIds : ReceiveReply(self) /\ UNCHANGED <<arrived, prevStatus, sectionEnd>>

GroupTick == Idle /\ Tick /\ UNCHANGED <<arrived, prevStatus, sectionEnd>>

NextGroup ==
  \/ GroupProduce \/ GroupAsk \/ GroupReceiveOffset \/ GroupReceiveRequest
  \/ GroupRun \/ GroupReply \/ GroupTick

SpecGroup == Init /\ [][NextGroup]_vars

\* ------------------------------------------- the overlapping specification
\* One group on one partition, the clock running between bursts; an item is
\* sent when both channels are empty and fewer than MaxActive handlers run,
\* so the handlers of up to MaxActive items overlap in any order.
Ready == offsetChannel = << >> /\ requestChannel = << >> /\ FreeSlot

ParObservations ==
  {PartitionOffset("local", "t1", 0, off, 1000, "", 1) : off \in 1..MaxOffset}
  \cup {PartitionOffset("local", BlacklistedTopic, 0, 1, 1000, "", 1)}

ParCommits ==
  {PartitionOffset("local", "t1", 0, off, NowMs, "g1", 0) : off \in 1..MaxOffset}

ParRequests ==
  {Request("RequestConsumerStatus", "local", "g1", TRUE),
   Request("RequestConsumerDrop", "local", "g1", FALSE),
   Request("RequestConsumerList", "local", "", FALSE),
   Request("RequestTopicList", "local", "", FALSE),
   RequestOffsets("local", "t1", "g1")}

ParProduce ==
  \E o \in ParObservations \cup ParCommits :
    Ready /\ SendOffset(o) /\ UNCHANGED <<arrived, prevStatus, sectionEnd>>

ParAsk ==
  \E r \in ParRequests :
    Ready /\ SendRequest(r) /\ UNCHANGED <<arrived, prevStatus, sectionEnd>>

ParReceiveOffset == DispatchOffset /\ UNCHANGED <<arrived, prevStatus, sectionEnd>>

ParReceiveRequest == DispatchRequest /\ UNCHANGED <<arrived, prevStatus, sectionEnd>>

ParRun ==
  \E self \in TaskIds :
    /\ Handler(self)
    /\ sectionEnd' =
         IF tasks[self].kind = "evaluateGroup" /\ tasks[self].pc = "locked"
            /\ tasks'[self].pc = "rules"
           THEN [sectionEnd EXCEPT
                   ![self] = <<consumer'[tasks[self].r.Cluster][tasks[self].r.Group]>>]
           ELSE sectionEnd
    /\ UNCHANGED <<arrived, prevStatus>>

ParReply ==
  \E self \in TaskIds :
    /\ ReceiveReply(self)
    /\ sectionEnd' = [sectionEnd EXCEPT ![self] = Nil]
    /\ UNCHANGED <<arrived, prevStatus>>

ParTick == Idle /\ Tick /\ UNCHANGED <<arrived, prevStatus, sectionEnd>>

NextPar ==
  \/ ParProduce \/ ParAsk \/ ParReceiveOffset \/ ParReceiveRequest
  \/ ParRun \/ ParReply \/ ParTick

SpecPar == Init /\ [][NextPar]_vars

\* ------------------------------------------------- the lag specification
\* One group on two partitions of a topic whose broker offsets run ahead of
\* the commits, the clock running; an item is sent when the handlers of the
\* items before it have returned.  Partition 0 is always committed at offset
\* 1 behind a broker at 2 * MaxOffset.
LagObservations ==
  {PartitionOffset("local", "t1", 1, off, 1000, "", 2) :
     off \in {MaxOffset, MaxOffset + 1, 2 * MaxOffset}}
  \cup {PartitionOffset("local", "t1", 0, 2 * MaxOffset, 1000, "", 2)}

LagCommits ==
  {PartitionOffset("local", "t1", 1, off, NowMs, "g1", 0) : off \in 1..MaxOffset}
  \cup {PartitionOffset("local", "t1", 0, 1, NowMs, "g1", 0)}

LagRequests ==
  {Request("RequestConsumerStatus", "local", "g1", b) : b \in BOOLEAN}

LagProduce ==
  \E o \in LagObservations \cup LagCommits :
    Idle /\ SendOffset(o) /\ UNCHANGED <<arrived, prevStatus, sectionEnd>>

LagAsk ==
  \E r \in LagRequests :
    Idle /\ SendRequest(r) /\ UNCHANGED <<arrived, prevStatus, sectionEnd>>

LagReceiveOffset == DispatchOffset /\ UNCHANGED <<arrived, prevStatus, sectionEnd>>

LagReceiveRequest == DispatchRequest /\ UNCHANGED <<arrived, prevStatus, sectionEnd>>

LagRun ==
  \E self \in TaskIds :
    Handler(self) /\ UNCHANGED <<arrived, prevStatus, sectionEnd>>

LagReply ==
  \E self \in TaskIds :
    ReceiveReply(self) /\ UNCHANGED <<arrived, prevStatus, sectionEnd>>

LagTick == Idle /\ Tick /\ UNCHANGED <<arrived, prevStatus, sectionEnd>>

NextLag ==
  \/ LagProduce \/ LagAsk \/ LagReceiveOffset \/ LagReceiveRequest
  \/ LagRun \/ LagReply \/ LagTick

SpecLag == Init /\ [][NextLag]_vars

\* ------------------------------------------------ the fair specification
\* One group on one partition at one clock value, handlers overlapping as in
\* the overlapping specification.  The storage goroutine and every handler
\* goroutine that can take a step, or can again and again, takes it; nothing
\* makes a requester receive its reply.
LiveObservations == {PartitionOffset("local", "t1", 0, 1, 1000, "", 1)}

LiveCommits ==
  {PartitionOffset("local", "t1", 0, off, NowMs, "g1", 0) : off \in 1..MaxOffset}

LiveRequests ==
  {Request("RequestConsumerStatus", "local", "g1", TRUE),
   Request("RequestConsumerDrop", "local", "g1", FALSE),
   Request("RequestConsumerList", "local", "", FALSE)}

LiveProduce ==
  \E o \in LiveObservations \cup LiveCommits :
    Ready /\ SendOffset(o) /\ UNCHANGED <<arrived, prevStatus, sectionEnd>>

LiveAsk ==
  \E r \in LiveRequests :
    Ready /\ SendRequest(r) /\ UNCHANGED <<arrived, prevStatus, sectionEnd>>

LiveReceiveOffset == DispatchOffset /\ UNCHANGED <<arrived, prevStatus, sectionEnd>>

LiveReceiveRequest == DispatchRequest /\ UNCHANGED <<arrived, prevStatus, sectionEnd>>

LiveStep(self) == Handler(self) /\ UNCHANGED <<arrived, prevStatus, sectionEnd>>

LiveRun ==
  \E self \in TaskIds :
    Handler(self) /\ UNCHANGED <<arrived, prevStatus, sectionEnd>>

LiveReply ==
  \E self \in TaskIds :
    ReceiveReply(self) /\ UNCHANGED <<arrived, prevStatus, sectionEnd>>

NextLive ==
  \/ LiveProduce \/ LiveAsk \/ LiveReceiveOffset \/ LiveReceiveRequest
  \/ LiveRun \/ LiveReply

SpecLive ==
  /\ Init /\ [][NextLive]_vars
  /\ WF_vars(LiveReceiveOffset) /\ WF_vars(LiveReceiveRequest)
  /\ \A self \in TaskIds : SF_vars(LiveStep(self))


\* ======================================================================
\* The claims
\* ======================================================================
IsObservation(a) == a.o # NoOffset /\ a.o.Group = ""
IsCommit(a) == a.o # NoOffset /\ a.o.Group # ""

\* the ring stored for a partition in a consumer table, or Nil
RingIn(cons, c, g, t, p) ==
  IF c \in DOMAIN cons /\ g \in DOMAIN cons[c] /\ t \in DOMAIN cons[c][g]
     /\ InRange(cons[c][g][t], p)
    THEN cons[c][g][t][p + 1] ELSE Nil

\* every ring of the store, with its place
RingKeys ==
  UNION {UNION {UNION {{<<c, g, t, i - 1>> : i \in 1..Len(consumer[c][g][t])} :
                         t \in DOMAIN consumer[c][g]} :
                  g \in DOMAIN consumer[c]} :
           c \in Clusters}

IsGenuine(slot) == slot # Nil /\ ~slot[1].artificial
IsValue(slot) == slot # Nil

\* the commits of a ring that the feed sent, oldest first
GenuineEntries(ring) == SelectSeq(ring, IsGenuine)

Stamp(e) == <<e.Offset, e.Timestamp>>

RECURSIVE IsSubsequence(_, _)
IsSubsequence(s, t) ==
  IF s = << >> THEN TRUE
  ELSE IF t = << >> THEN FALSE
  ELSE IF Head(s) = Head(t) THEN IsSubsequence(Tail(s), Tail(t))
  ELSE IsSubsequence(s, Tail(t))

\* ----------------------------------------------------------------- C1
\* C1: a ClusterList request the storage goroutine receives is handed to the
\* ClusterList handler (which then replies with the configured cluster
\* names); it is not dropped as an unknown request.
C1_ClusterListDispatched ==
  [][(/\ requestChannel # << >>
      /\ requestChannel[1].type = "RequestClusterList"
      /\ requestChannel' = << >>)
     => \E i \in TaskIds :
          /\ tasks[i] = NoTask
          /\ tasks'[i].kind = "requestClusterList"
          /\ tasks'[i].r = requestChannel[1]]_vars

\* ----------------------------------------------------------------- C2
\* the broker observations received for a partition, in the order received
ObservationsOf(c, t, p) ==
  LET Match(a) == IsObservation(a) /\ a.o.Cluster = c /\ a.o.Topic = t
                  /\ a.o.Partition = p
  IN  SelectSeq(arrived, Match)

\* C2: once every handler has returned, the broker offset and timestamp stored
\* for a partition are those of the last observation received for it,
\* whatever the order in which the handler goroutines ran.
C2_LastObservationStored ==
  (Idle /\ Running) =>
    \A c \in Clusters : \A t \in DOMAIN broker[c] : \A p \in 0..MaxPartition :
      LET obs == ObservationsOf(c, t, p) IN
      (obs # << >> /\ InRange(broker[c][t], p) /\ broker[c][t][p + 1] # Nil)
        => broker[c][t][p + 1][1]
             = BrokerOffset(obs[Len(obs)].o.Offset, obs[Len(obs)].o.Timestamp)

\* ----------------------------------------------------------------- C3
CommitsOf(k) ==
  LET Match(a) == IsCommit(a) /\ a.o.Cluster = k[1] /\ a.o.Group = k[2]
                  /\ a.o.Topic = k[3] /\ a.o.Partition = k[4]
      sel == SelectSeq(arrived, Match)
  IN  [i \in 1..Len(sel) |-> Stamp(sel[i].o)]

EntriesOf(k) ==
  LET sel == GenuineEntries(RingIn(consumer, k[1], k[2], k[3], k[4]))
  IN  [i \in 1..Len(sel) |-> Stamp(sel[i][1])]

\* C3: the commits in a ring are in the order in which they were received:
\* they are a subsequence of the commits received for that partition,
\* whatever the order in which the handler goroutines ran.
C3_RingInArrivalOrder ==
  \A k \in RingKeys : IsSubsequence(EntriesOf(k), CommitsOf(k))

\* ----------------------------------------------------------------- C4
MaxCountObserved(c, t) ==
  LET counts == {arrived[i].o.TopicPartitionCount :
                   i \in {j \in 1..Len(arrived) :
                            /\ IsObservation(arrived[j])
                            /\ arrived[j].o.Cluster = c
                            /\ arrived[j].o.Topic = t}}
  IN  CHOOSE m \in counts \cup {0} : \A x \in counts \cup {0} : m >= x

\* C4: once every handler has returned, the partition vector stored for a topic
\* is as long as the greatest topic_partition_count observed for it.
C4_VectorLengthIsMaxCount ==
  (Idle /\ Running) =>
    \A c \in Clusters : \A t \in DOMAIN broker[c] :
      Len(broker[c][t]) = MaxCountObserved(c, t)

\* ----------------------------------------------------------------- C5
\* C5: in every ring, of two successive commits sent by the feed (artificial
\* entries between them or not) the later one has a greater timestamp or a
\* greater offset.
C5_RingMonotonic ==
  \A k \in RingKeys :
    LET s == GenuineEntries(RingIn(consumer, k[1], k[2], k[3], k[4])) IN
    \A i \in 1..(Len(s) - 1) :
      \/ s[i + 1][1].Timestamp > s[i][1].Timestamp
      \/ s[i + 1][1].Offset > s[i][1].Offset

\* ----------------------------------------------------------------- C6
\* the step in which addConsumerOffset runs lines 304-378 and returns
StoreStep(self) ==
  /\ tasks[self].kind = "addConsumerOffset" /\ tasks[self].pc = "locked"
  /\ tasks'[self] = NoTask

RingOfTask(cons, self) ==
  RingIn(cons, tasks[self].o.Cluster, tasks[self].o.Group, tasks[self].o.Topic,
         tasks[self].o.Partition)

HasLast(self) ==
  RingOfTask(consumer, self) # Nil /\ RingPrev(RingOfTask(consumer, self)) # Nil

LastOf(self) == RingPrev(RingOfTask(consumer, self))[1]

TimestampDifference(self) == tasks[self].o.Timestamp - LastOf(self).Timestamp

\* the ring after the commit of the task was written at the cursor
StoredAtCursor(self) ==
  LET before == RingOfTask(consumer, self)
      after == RingOfTask(consumer', self)
  IN  /\ after # Nil /\ RingPrev(after) # Nil
      /\ Stamp(RingPrev(after)[1]) = Stamp(tasks[self].o)
      /\ ~RingPrev(after)[1].artificial
      /\ \A i \in 1..(Len(before) - 1) : after[i] = before[i + 1]

\* C6 as claimed: a commit whose timestamp is less than min_distance after the
\* genuine last entry is not stored.
C6_TooFastNotStored ==
  [][\A self \in TaskIds :
       (/\ StoreStep(self) /\ HasLast(self)
        /\ ~LastOf(self).artificial
        /\ TimestampDifference(self) < MinDistance * 1000)
       => consumer' = consumer]_vars

\* C6 amended: a commit whose timestamp is at or after that of the genuine
\* last entry, by less than min_distance, is not stored; after an artificial
\* last entry a commit with a greater timestamp or offset is stored, whatever
\* the difference.
C6_RateLimit ==
  [][\A self \in TaskIds :
       (StoreStep(self) /\ HasLast(self)) =>
         /\ (/\ ~LastOf(self).artificial
             /\ TimestampDifference(self) >= 0
             /\ TimestampDifference(self) < MinDistance * 1000)
            => consumer' = consumer
         /\ (/\ LastOf(self).artificial
             /\ \/ TimestampDifference(self) > 0
                \/ tasks[self].o.Offset > LastOf(self).Offset)
            => StoredAtCursor(self)]_vars

\* a genuine commit stands right after an artificial entry, less than
\* min_distance later: it was stored although dt < min_distance
C6_Witness ==
  \E k \in RingKeys :
    LET ring == RingIn(consumer, k[1], k[2], k[3], k[4]) IN
    /\ ring # Nil
    /\ \E i \in 1..(Len(ring) - 1) :
         /\ ring[i] # Nil /\ ring[i][1].artificial
         /\ ring[i + 1] # Nil /\ ~ring[i + 1][1].artificial
         /\ ring[i + 1][1].Timestamp - ring[i][1].Timestamp < MinDistance * 1000
         /\ ring[i + 1][1].Timestamp - ring[i][1].Timestamp > 0

\* ----------------------------------------------------------------- C7
\* the step in which evaluateGroup runs lines 427-491
SnapshotStep(self) ==
  /\ tasks[self].kind = "evaluateGroup" /\ tasks[self].pc = "locked"
  /\ tasks'[self].pc # "locked"

\* the timestamps of every entry stored for a group
StoredStamps(c, g) ==
  UNION {UNION {{consumer[c][g][t][i][j][1].Timestamp :
                   j \in {n \in 1..Len(consumer[c][g][t][i]) :
                            consumer[c][g][t][i][n] # Nil}} :
                  i \in 1..Len(consumer[c][g][t])} :
           t \in DOMAIN consumer[c][g]}

\* C7: an evaluation of a group all of whose stored entries are older than
\* now - expire_group_seconds replies NOTFOUND and removes the group.
C7_ExpiredGroupNotFound ==
  [][\A self \in TaskIds :
       LET c == tasks[self].r.Cluster
           g == tasks[self].r.Group
       IN  (/\ SnapshotStep(self)
            /\ g \in DOMAIN consumer[c]
            /\ StoredStamps(c, g) # {}
            /\ \A ts \in StoredStamps(c, g) : ts < (now - ExpireGroup) * 1000)
           => /\ tasks'[self].status.Status = StatusNotFound
              /\ g \notin DOMAIN consumer'[c]]_vars

\* ----------------------------------------------------------------- C8
PartitionStatuses(status) ==
  [i \in 1..Len(status.Partitions) |->
     <<status.Partitions[i].Topic, status.Partitions[i].Partition,
       status.Partitions[i].Status>>]

\* C8: an evaluation that follows one of the same request at the same clock
\* value, with nothing sent in between, replies with the same group status and
\* the same partition statuses.
C8_EvaluationIdempotent ==
  \A self \in TaskIds :
    (/\ tasks[self].kind = "evaluateGroup" /\ tasks[self].pc = "send"
     /\ prevStatus # Nil
     /\ prevStatus[1].r = tasks[self].r)
    => /\ tasks[self].status.Status = prevStatus[1].status.Status
       /\ PartitionStatuses(tasks[self].status)
            = PartitionStatuses(prevStatus[1].status)

\* ----------------------------------------------------------------- C9
\* the group of the request has one partition, whose ring holds one commit,
\* at the offset stored for the broker
SingleCommitAtHead(r) ==
  LET c == r.Cluster
      g == r.Group
  IN  /\ c \in Clusters /\ g \in DOMAIN consumer[c]
      /\ \E t \in DOMAIN consumer[c][g] :
           /\ DOMAIN consumer[c][g] = {t}
           /\ Len(consumer[c][g][t]) = 1
           /\ consumer[c][g][t][1] # Nil
           /\ Len(SelectSeq(consumer[c][g][t][1], IsValue)) = 1
           /\ t \in DOMAIN broker[c] /\ InRange(broker[c][t], 0)
           /\ broker[c][t][1] # Nil
           /\ RingPrev(consumer[c][g][t][1]) # Nil
           /\ RingPrev(consumer[c][g][t][1])[1].Offset = broker[c][t][1][1].Offset

C10_NoPanic == panicked = ""


\* ----------------------------------------------------------------- C18
\* a handler of the given kind waits for its reply to be received
Replying(self, kind) == tasks[self].kind = kind /\ tasks[self].pc = "send"

\* the values of a stored ring, oldest first
ValuesOf(ring) == [i \in 1..Len(ring) |-> ring[i][1]]

\* the partitions of the group of a request that an evaluation judges: the
\* ring is full and its oldest entry has a lag
EvaluatedPartitions(r) ==
  IF r.Cluster \in Clusters /\ r.Group \in DOMAIN consumer[r.Cluster]
    THEN LET cmap == consumer[r.Cluster][r.Group] IN
         UNION {{<<t, i - 1>> : i \in {n \in 1..Len(cmap[t]) :
                     /\ cmap[t][n] # Nil
                     /\ \A j \in 1..Len(cmap[t][n]) : cmap[t][n][j] # Nil
                     /\ cmap[t][n][1][1].Lag # -1}} :
                t \in DOMAIN cmap}
    ELSE {}

OffsetsOf(r, k) == ValuesOf(consumer[r.Cluster][r.Group][k[1]][k[2] + 1])

\* the statuses a reply lists for a partition
ReportedAs(status, k) ==
  {status.Partitions[i].Status :
     i \in {n \in 1..Len(status.Partitions) :
              /\ status.Partitions[n].Topic = k[1]
              /\ status.Partitions[n].Partition = k[2]}}

HasRewind(offsets) ==
  \E i \in 2..Len(offsets) : offsets[i].Offset < offsets[i - 1].Offset

Stopped(offsets) ==
  (NowMs - offsets[Len(offsets)].Timestamp)
     > (offsets[Len(offsets)].Timestamp - offsets[1].Timestamp)

\* C18: in the reply of an evaluation, a judged partition whose entries go
\* back in offset somewhere and which is not stopped is listed as REWIND and
\* as nothing else, and the group status is ERR.
C18_RewindReported ==
  \A self \in TaskIds :
    Replying(self, "evaluateGroup") =>
      \A k \in EvaluatedPartitions(tasks[self].r) :
        LET offsets == OffsetsOf(tasks[self].r, k) IN
        (HasRewind(offsets) /\ ~Stopped(offsets))
          => /\ tasks[self].status.Status = StatusError
             /\ ReportedAs(tasks[self].status, k) = {StatusRewind}


\* ----------------------------------------------------------------- C19
\* C19: in the reply of an evaluation, a judged partition for which the time
\* since its last entry exceeds the time between its first and last entries
\* is listed as STOP and as nothing else and the group status is ERR, with
\* or without show_all; a judged partition for which it does not is never
\* listed as STOP.
C19_StopRule ==
  \A self \in TaskIds :
    Replying(self, "evaluateGroup") =>
      \A k \in EvaluatedPartitions(tasks[self].r) :
        IF Stopped(OffsetsOf(tasks[self].r, k))
          THEN /\ tasks[self].status.Status = StatusError
               /\ ReportedAs(tasks[self].status, k) = {StatusStop}
          ELSE StatusStop \notin ReportedAs(tasks[self].status, k)

\* a reply without show_all lists a stopped partition whose last lag is 0
C19_Witness ==
  \E self \in TaskIds :
    /\ Replying(self, "evaluateGroup") /\ ~tasks[self].r.Showall
    /\ \E k \in EvaluatedPartitions(tasks[self].r) :
         LET offsets == OffsetsOf(tasks[self].r, k) IN
         /\ Stopped(offsets)
         /\ offsets[Len(offsets)].Lag = 0
         /\ ReportedAs(tasks[self].status, k) = {StatusStop}

EntriesIn(cons) ==
  UNION {UNION {UNION {UNION {{cons[c][g][t][i][j][1] :
                                 j \in {n \in 1..Len(cons[c][g][t][i]) :
                                          cons[c][g][t][i][n] # Nil}} :
                                i \in {n \in 1..Len(cons[c][g][t]) :
                                         cons[c][g][t][n] # Nil}} :
                         t \in DOMAIN cons[c][g]} :
                  g \in DOMAIN cons[c]} :
           c \in Clusters}

\* C15: after every step every stored ring entry, genuine or artificial, has
\* a lag of 0 or more, and the entry a commit handler stores has the lag
\* max(0, broker offset - offset) for the broker offset the handler read
\* under the broker lock.
C15_LagClamped ==
  [][/\ \A e \in EntriesIn(consumer') : e.Lag >= 0
     /\ \A self \in TaskIds :
          (StoreStep(self) /\ consumer' # consumer)
            => LET stored == RingPrev(RingOfTask(consumer', self))[1] IN
               /\ ~stored.artificial
               /\ stored.Offset = tasks[self].o.Offset
               /\ stored.Lag = Max(0, tasks[self].brokerOffset
                                        - tasks[self].o.Offset)]_vars

\* a genuine entry with lag 0 is stored for an offset beyond the broker offset
\* of its partition, beside an artificial entry
C15_Witness ==
  \E k \in RingKeys :
    LET ring == consumer[k[1]][k[2]][k[3]][k[4] + 1] IN
    /\ ring # Nil
    /\ k[3] \in DOMAIN broker[k[1]] /\ InRange(broker[k[1]][k[3]], k[4])
    /\ broker[k[1]][k[3]][k[4] + 1] # Nil
    /\ \E j \in 1..Len(ring) :
         /\ IsGenuine(ring[j]) /\ ring[j][1].Lag = 0
         /\ ring[j][1].Offset > broker[k[1]][k[3]][k[4] + 1][1].Offset
    /\ \E j \in 1..Len(ring) : ring[j] # Nil /\ ring[j][1].artificial


\* ----------------------------------------------------------------- C16
\* a step of the drop handler of a task
DropGroupStep(self) ==
  tasks[self].kind = "dropGroup" /\ tasks'[self] # tasks[self]

\* C16: the step a drop handler takes while it holds the consumer lock
\* decides OK and removes the group with all its rings when the group is
\* stored at that moment, and decides NOTFOUND and leaves the consumer table
\* as it is when it is not; the reply is what was decided; no step of a drop
\* handler changes the broker table or changes the consumer table otherwise.
C16_DropFrame ==
  [][\A self \in TaskIds :
       DropGroupStep(self) =>
         LET c == tasks[self].r.Cluster
             g == tasks[self].r.Group
         IN
         /\ broker' = broker
         /\ IF tasks[self].pc = "locked"
              THEN /\ consumerLock[c].w = self
                   /\ tasks'[self].pc = "send"
                   /\ IF g \in DOMAIN consumer[c]
                        THEN /\ tasks'[self].code = StatusOK
                             /\ DOMAIN consumer'[c] = DOMAIN consumer[c] \ {g}
                             /\ \A h \in DOMAIN consumer'[c] :
                                  consumer'[c][h] = consumer[c][h]
                             /\ \A d \in Clusters \ {c} :
                                  consumer'[d] = consumer[d]
                        ELSE /\ tasks'[self].code = StatusNotFound
                             /\ consumer' = consumer
              ELSE /\ consumer' = consumer
                   /\ tasks[self].pc = "send" => tasks'[self] = NoTask]_vars

\* a drop handler replies OK for a group that had a ring with entries
C16_Witness ==
  \E self \in TaskIds :
    /\ Replying(self, "dropGroup")
    /\ tasks[self].code = StatusOK
    /\ tasks[self].r.Group \notin DOMAIN consumer[tasks[self].r.Cluster]
    /\ \A c \in Clusters : broker[c] # << >>


\* ----------------------------------------------------------------- C17
\* the place of every ring slot of a consumer table
KeysIn(cons) ==
  UNION {UNION {UNION {{<<c, g, t, i - 1>> : i \in 1..Len(cons[c][g][t])} :
                         t \in DOMAIN cons[c][g]} :
                  g \in DOMAIN cons[c]} :
           c \in Clusters}

LastIsArtificial(ring) ==
  ring # Nil /\ RingPrev(ring) # Nil /\ RingPrev(ring)[1].artificial

\* the ring at k after the step is the ring before it with an artificial
\* entry in the cursor slot and the cursor one slot on, the entry before it
\* being at or beyond the stored broker offset
ArtificialWrite(k) ==
  LET before == RingIn(consumer, k[1], k[2], k[3], k[4])
      after == RingIn(consumer', k[1], k[2], k[3], k[4])
  IN  /\ before # Nil /\ RingPrev(before) # Nil
      /\ k[3] \in DOMAIN broker[k[1]] /\ InRange(broker[k[1]][k[3]], k[4])
      /\ broker[k[1]][k[3]][k[4] + 1] # Nil
      /\ RingPrev(before)[1].Offset >= broker[k[1]][k[3]][k[4] + 1][1].Offset
      /\ Len(after) = Len(before)
      /\ after[Len(after)]
           = <<ConsumerOffset(RingPrev(before)[1].Offset, NowMs, 0, TRUE)>>
      /\ \A i \in 1..(Len(before) - 1) : after[i] = before[i + 1]

\* C17: a step that leaves a changed ring with an artificial last entry is the
\* critical section of an evaluation of the ring's group; the entry before
\* was at or beyond the stored broker offset of the partition, the artificial
\* entry took the cursor slot with that entry's offset, the clock's time, lag
\* 0, and the cursor moved one slot on; and every ring an evaluation changes
\* is changed in this way, so no other ring of the group is touched.
C17_ArtificialCommit ==
  [][\A k \in KeysIn(consumer') :
       LET before == RingIn(consumer, k[1], k[2], k[3], k[4])
           after == RingIn(consumer', k[1], k[2], k[3], k[4])
           evaluated == \E self \in TaskIds :
                          /\ SnapshotStep(self)
                          /\ tasks[self].r.Cluster = k[1]
                          /\ tasks[self].r.Group = k[2]
       IN  /\ (after # before /\ LastIsArtificial(after))
                => (evaluated /\ ArtificialWrite(k))
           /\ (after # before /\ evaluated) => ArtificialWrite(k)]_vars

\* an evaluation has just written an artificial entry to the ring of
\* partition 0 while partition 1 of the group holds a ring that is not full
C17_Witness ==
  \E self \in TaskIds :
    /\ tasks[self].kind = "evaluateGroup" /\ tasks[self].pc = "rules"
    /\ LET c == tasks[self].r.Cluster
           g == tasks[self].r.Group
       IN  \E t \in DOMAIN consumer[c][g] :
             /\ Len(consumer[c][g][t]) = 2
             /\ LastIsArtificial(consumer[c][g][t][1])
             /\ RingPrev(consumer[c][g][t][1])[1].Timestamp = NowMs
             /\ consumer[c][g][t][2] # Nil
             /\ RingNotFull(consumer[c][g][t][2])
             /\ RingPrev(consumer[c][g][t][2]) # Nil


\* ----------------------------------------------------------------- C14
MatchesBlacklist(o) == groupBlacklistMatch(o.Group) \/ topicBlacklistMatch(o.Topic)

\* C14: after every step no group of a consumer table matches the group
\* blacklist and no topic of a group matches the topic blacklist, and a step
\* of the handler of a commit that matches either leaves the whole consumer
\* table as it was and ends the handler.
C14_BlacklistNotStored ==
  [][/\ \A c \in Clusters : \A g \in DOMAIN consumer'[c] :
          /\ ~groupBlacklistMatch(g)
          /\ \A t \in DOMAIN consumer'[c][g] : ~topicBlacklistMatch(t)
     /\ \A self \in TaskIds :
          (/\ tasks[self].kind = "addConsumerOffset"
           /\ MatchesBlacklist(tasks[self].o)
           /\ tasks'[self] # tasks[self])
            => consumer' = consumer /\ tasks'[self] = NoTask]_vars

\* the handler of a commit to the blacklisted topic has returned; the broker
\* table has that topic and the partition, and the commit's group is stored
C14_Witness ==
  /\ Idle /\ arrived # << >>
  /\ LET o == arrived[Len(arrived)].o IN
     /\ o # NoOffset /\ o.Group # "" /\ topicBlacklistMatch(o.Topic)
     /\ ~groupBlacklistMatch(o.Group)
     /\ o.Cluster \in Clusters
     /\ o.Topic \in DOMAIN broker[o.Cluster]
     /\ InRange(broker[o.Cluster][o.Topic], o.Partition)
     /\ broker[o.Cluster][o.Topic][o.Partition + 1] # Nil
     /\ o.Group \in DOMAIN consumer[o.Cluster]


\* ----------------------------------------------------------------- C11
HoldsLock(l, self) == l.w = self \/ self \in l.r

\* C11: no step leaves a handler holding the consumer lock of a cluster when
\* the handler held the broker lock of that cluster before the step or holds
\* it after: a handler neither acquires nor holds the consumer lock while
\* it holds the broker lock.
C11_NoNestedLocks ==
  [][\A c \in Clusters : \A self \in TaskIds :
       HoldsLock(consumerLock'[c], self)
         => /\ ~HoldsLock(brokerLock[c], self)
            /\ ~HoldsLock(brokerLock'[c], self)]_vars

\* a commit handler holds the consumer lock, having read the broker table and
\* released the broker lock, while another handler holds the broker lock
C11_Witness ==
  \E self, other \in TaskIds :
    /\ self # other
    /\ tasks[self].kind = "addConsumerOffset" /\ tasks[self].pc = "locked"
    /\ consumerLock[tasks[self].o.Cluster].w = self
    /\ HoldsLock(brokerLock[tasks[self].o.Cluster], other)

\* ----------------------------------------------------------------- C12
\* an evaluation is in its critical section before a ring that makes it read
\* the broker table
AboutToReadBroker(self) ==
  /\ tasks[self].kind = "evaluateGroup" /\ tasks[self].pc = "locked"
  /\ tasks[self].r.Group \in DOMAIN consumer[tasks[self].r.Cluster]
  /\ ReadsBroker(consumer[tasks[self].r.Cluster][tasks[self].r.Group])

\* an observation handler holds the broker lock before its write
AboutToWriteBroker(self, c) ==
  /\ tasks[self].kind = "addBrokerOffset" /\ tasks[self].pc = "locked"
  /\ tasks[self].o.Cluster = c
  /\ brokerLock[c].w = self

\* C12: in no state is an evaluation about to read the broker table for the
\* artificial commit without holding the broker lock while an observation
\* handler, holding the broker lock, is about to write the table.
C12_BrokerReadLocked ==
  \A self, other \in TaskIds :
    ~(/\ AboutToReadBroker(self)
      /\ ~HoldsLock(brokerLock[tasks[self].r.Cluster], self)
      /\ AboutToWriteBroker(other, tasks[self].r.Cluster))

\* ----------------------------------------------------------------- C13
\* the reply the rules give for the rings an evaluation left at the end of
\* its critical section
RepliesFor(self, cmap) ==
  LET r == tasks[self].r
      list == OffsetListOf(cmap)
      slots == UNION {{<<t, i>> : i \in 1..Len(cmap[t])} : t \in DOMAIN cmap}
      base == [ConsumerGroupStatus(r.Cluster, r.Group) EXCEPT
                 !.Status = StatusOK,
                 !.TotalPartitions = Cardinality(slots),
                 !.Complete = \A k \in slots : ~RingNotFull(cmap[k[1]][k[2]])]
  IN  {Rules(base, list, order, NowMs, r.Showall) : order \in Orders(DOMAIN cmap)}

\* C13: the reply of an evaluation that found its group is the one the rules
\* give for the group's rings as the evaluation left them when it released
\* the consumer lock, whatever has been done to the group since.
C13_ReplyFromSnapshot ==
  \A self \in TaskIds :
    (Replying(self, "evaluateGroup") /\ sectionEnd[self] # Nil)
      => tasks[self].status \in RepliesFor(self, sectionEnd[self][1])

\* an evaluation is about to reply while the group's rings are no longer what
\* it left, and the rules would answer otherwise for what is stored now
C13_Witness ==
  \E self \in TaskIds :
    /\ Replying(self, "evaluateGroup") /\ sectionEnd[self] # Nil
    /\ LET c == tasks[self].r.Cluster
           g == tasks[self].r.Group
       IN  /\ g \in DOMAIN consumer[c]
           /\ consumer[c][g] # sectionEnd[self][1]
           /\ tasks[self].status \notin RepliesFor(self, consumer[c][g])


\* ----------------------------------------------------------------- C25
\* the places of a reply's Partitions list that name a partition
ListedAt(status, k) ==
  {n \in 1..Len(status.Partitions) :
     /\ status.Partitions[n].Topic = k[1]
     /\ status.Partitions[n].Partition = k[2]}

\* C25: in the reply of an evaluation every partition of the group is named
\* by at most one entry of the Partitions list.
C25_ListedOnce ==
  \A self \in TaskIds :
    Replying(self, "evaluateGroup") =>
      \A k \in EvaluatedPartitions(tasks[self].r) :
        Cardinality(ListedAt(tasks[self].status, k)) <= 1


\* ----------------------------------------------------------------- C21
First(offsets) == offsets[1]
Last(offsets) == offsets[Len(offsets)]

\* the partition is stopped, goes back in offset, or stalls
JudgedAsError(offsets) ==
  \/ Stopped(offsets)
  \/ HasRewind(offsets)
  \/ /\ Last(offsets).Offset = First(offsets).Offset
     /\ Last(offsets).Lag # 0 /\ First(offsets).Lag # 0

\* the lag grew over the snapshot and neither reached 0 nor fell anywhere
LagOnlyGrew(offsets) ==
  /\ First(offsets).Lag # 0
  /\ Last(offsets).Lag > First(offsets).Lag
  /\ \A i \in 1..Len(offsets) :
       /\ offsets[i].Lag # 0
       /\ (i > 1) => (offsets[i].Lag >= offsets[i - 1].Lag)

\* Rules 1 to 3 are reached with different first and last offsets and a last
\* lag that is not 0
SlowCase(offsets) ==
  /\ ~Stopped(offsets) /\ ~HasRewind(offsets)
  /\ Last(offsets).Offset # First(offsets).Offset
  /\ Last(offsets).Lag # 0

\* C21: in the reply of an evaluation, a judged partition that is not
\* stopped, never goes back in offset, has different first and last offsets
\* and a last lag that is not 0 is listed as WARN exactly when its first lag
\* is not 0, its last lag exceeds its first and no entry has lag 0 or a lag
\* below the entry before it; the group status is then WARN, or ERR when
\* another partition of the group is in error; otherwise the partition is
\* listed as OK under show_all and not listed without it.
C21_SlowRule ==
  \A self \in TaskIds :
    Replying(self, "evaluateGroup") =>
      \A k \in EvaluatedPartitions(tasks[self].r) :
        LET r == tasks[self].r
            offsets == OffsetsOf(r, k)
        IN
        SlowCase(offsets)
          => IF LagOnlyGrew(offsets)
               THEN /\ ReportedAs(tasks[self].status, k) = {StatusWarning}
                    /\ tasks[self].status.Status
                         = IF \E j \in EvaluatedPartitions(r) \ {k} :
                                JudgedAsError(OffsetsOf(r, j))
                             THEN StatusError ELSE StatusWarning
               ELSE ReportedAs(tasks[self].status, k)
                      = IF r.Showall THEN {StatusOK} ELSE {}

\* a reply lists a slow partition as WARN and has group status ERR, the other
\* partition of the group being in error
C21_Witness ==
  \E self \in TaskIds :
    /\ Replying(self, "evaluateGroup")
    /\ tasks[self].status.Status = StatusError
    /\ \E k \in EvaluatedPartitions(tasks[self].r) :
         /\ SlowCase(OffsetsOf(tasks[self].r, k))
         /\ LagOnlyGrew(OffsetsOf(tasks[self].r, k))
         /\ ReportedAs(tasks[self].status, k) = {StatusWarning}
         /\ \E j \in EvaluatedPartitions(tasks[self].r) \ {k} :
              JudgedAsError(OffsetsOf(tasks[self].r, j))


\* ----------------------------------------------------------------- C22
\* the statuses a reply gives its partitions
FinalStatuses(status) ==
  {status.Partitions[n].Status : n \in 1..Len(status.Partitions)}

MostSevere(statuses) ==
  IF statuses \cap {StatusStop, StatusStall, StatusRewind} # {} THEN StatusError
  ELSE IF StatusWarning \in statuses THEN StatusWarning
  ELSE StatusOK

\* C22: in a reply of an evaluation other than NOTFOUND the group status is
\* ERR when some partition is reported STOP, STALL or REWIND, WARN when none
\* is and some partition is reported WARN, and OK otherwise.
C22_GroupStatusMostSevere ==
  \A self \in TaskIds :
    (Replying(self, "evaluateGroup")
     /\ tasks[self].status.Status # StatusNotFound)
      => tasks[self].status.Status = MostSevere(FinalStatuses(tasks[self].status))


\* ----------------------------------------------------------------- C23
\* the partitions of the group of a request whose ring holds an entry
NonEmptyPartitions(r) ==
  IF r.Cluster \in Clusters /\ r.Group \in DOMAIN consumer[r.Cluster]
    THEN LET cmap == consumer[r.Cluster][r.Group] IN
         UNION {{<<t, i - 1>> : i \in {n \in 1..Len(cmap[t]) :
                     cmap[t][n] # Nil /\ RingPrev(cmap[t][n]) # Nil}} :
                t \in DOMAIN cmap}
    ELSE {}

LastLag(r, k) == RingPrev(consumer[r.Cluster][r.Group][k[1]][k[2] + 1])[1].Lag

RECURSIVE SumLastLag(_, _)
SumLastLag(r, ks) ==
  IF ks = {} THEN 0
  ELSE LET k == CHOOSE x \in ks : TRUE
       IN  LastLag(r, k) + SumLastLag(r, ks \ {k})

\* C23: in a reply of an evaluation other than NOTFOUND, Maxlag names a
\* partition of the group whose last lag is the greatest among the
\* partitions whose ring holds an entry, and TotalLag is the sum of the last
\* lags of those partitions.
C23_MaxlagAndTotalLag ==
  \A self \in TaskIds :
    (Replying(self, "evaluateGroup")
     /\ tasks[self].status.Status # StatusNotFound)
      => LET r == tasks[self].r
             status == tasks[self].status
             ks == NonEmptyPartitions(r)
         IN  /\ status.TotalLag = SumLastLag(r, ks)
             /\ ks # {} =>
                  /\ status.Maxlag # Nil
                  /\ \E k \in ks :
                       /\ status.Maxlag[1].Topic = k[1]
                       /\ status.Maxlag[1].Partition = k[2]
                       /\ \A j \in ks : LastLag(r, k) >= LastLag(r, j)


\* ----------------------------------------------------------------- C24
\* C24: whether or not requesters receive their replies, every commit handler
\* that has been started returns.
C24_IngestCompletes ==
  \A self \in TaskIds :
    (tasks[self].kind = "addConsumerOffset")
      ~> (tasks[self].kind # "addConsumerOffset")

====
